---------------------------- MODULE Spec2Model ----------------------------
(***************************************************************************)
(* Jingle (XEP-0166/0234) session negotiation and In-Band Bytestreams      *)
(* (XEP-0047) reception, as implemented in src/xmpp/jingle.c and           *)
(* src/xmpp/ibb.c.                                                         *)
(*                                                                         *)
(* One action per inbound envelope handler.  Every handler runs to         *)
(* completion inside one dispatch, so an action is the whole handler.      *)
(*                                                                         *)
(* Attribute values that the code parses (block-size, seq, file size) are  *)
(* character sequences, so that strtol / atoi / "%u" are modelled by what  *)
(* they do.  A missing attribute or child is the C NULL pointer.           *)
(***************************************************************************)
EXTENDS Integers, Sequences, FiniteSets, TLC

VARIABLES
    jingle_sessions,   \* GHashTable* jingle_sessions: jingle sid -> session
    ibb_sessions,      \* GHashTable* ibb_sessions: transport sid -> ibb_session_t
    out,               \* envelopes sent during the last dispatch, in order
    status,            \* "running" | "hung" (handler never returns) | "crashed"
    nInit              \* session-initiate envelopes that passed validation so far

vars == <<jingle_sessions, ibb_sessions, out, status, nInit>>

---------------------------------------------------------------------------
(* Bounds of the model (not program constants).                            *)

\* Content children carried by one session-initiate.
MaxContents == 2
\* Structurally valid session-initiate envelopes dispatched in one behaviour.
MaxInitiates == 2
\* Largest sequence number a transfer reaches in the main specification.
MaxSeq == 2
\* Largest decoded length of one data block.
MaxBlock == 2

---------------------------------------------------------------------------
(* Strings.  A C string is a sequence of one-character strings; the NULL   *)
(* pointer (absent attribute / absent child) is the value NULL.            *)

NULL == <<"NULL">>

Digits == <<"0", "1", "2", "3", "4", "5", "6", "7", "8", "9">>

IsDigit(c) == \E i \in 1..10 : Digits[i] = c

DigitVal(c) == (CHOOSE i \in 1..10 : Digits[i] = c) - 1

\* isspace() on the characters the model feeds in.
IsSpace(c) == c = " "

RECURSIVE SkipSpace(_)
SkipSpace(s) == IF s # <<>> /\ IsSpace(Head(s)) THEN SkipSpace(Tail(s)) ELSE s

\* Number of leading decimal digits of s.
RECURSIVE DigitRun(_)
DigitRun(s) == IF s # <<>> /\ IsDigit(Head(s)) THEN 1 + DigitRun(Tail(s)) ELSE 0

\* Value of an all-digit sequence.
RECURSIVE DigitsValue(_, _)
DigitsValue(s, acc) == IF s = <<>> THEN acc ELSE DigitsValue(Tail(s), 10 * acc + DigitVal(Head(s)))

\* strtol(str, &endptr, 10): optional white space, optional sign, digits.
\* With no digits nothing is consumed: value 0 and endptr = str.
\* The numerals of this model have at most five digits, so ERANGE (a value
\* outside long) does not arise.
Strtol(s) ==
    LET t    == SkipSpace(s)
        sign == t # <<>> /\ Head(t) \in {"-", "+"}
        neg  == t # <<>> /\ Head(t) = "-"
        u    == IF sign THEN Tail(t) ELSE t
        n    == DigitRun(u)
        v    == DigitsValue(SubSeq(u, 1, n), 0)
    IN  IF n = 0
        THEN [value |-> 0, rest |-> s]
        ELSE [value |-> IF neg THEN 0 - v ELSE v, rest |-> SubSeq(u, n + 1, Len(u))]

\* The width of uint16_t, the type of ibb_session_t.seq.
UInt16Max == 65535

\* _convert_str_to_uint16: [ok, value].
convert_str_to_uint16(str) ==
    LET r == Strtol(str)
    IN  IF r.rest # <<>> THEN [ok |-> FALSE, value |-> 0]
        ELSE IF r.value < 0 \/ r.value > UInt16Max THEN [ok |-> FALSE, value |-> 0]
        ELSE [ok |-> TRUE, value |-> r.value]

\* atoi(): strtol without error reporting, trailing characters ignored.
\* The result is stored in a uint; the model's numerals are not negative, so
\* the conversion to unsigned keeps the value.
Atoi(s) == Strtol(s).value

\* uint_to_str / g_strdup_printf("%u", value): canonical decimal rendering.
RECURSIVE uint_to_str(_)
uint_to_str(value) ==
    IF value < 10 THEN <<Digits[value + 1]>>
    ELSE Append(uint_to_str(value \div 10), Digits[(value % 10) + 1])

\* g_strcmp0(a, b) == 0; NULL equals only NULL.
StrEq(a, b) == a = b

\* string_to_ul (common.c, outside src/): [ok, value], the decimal value of
\* the size string, or failure when it is not an unsigned decimal numeral.
string_to_ul(str) ==
    IF str = NULL \/ str = <<>> \/ DigitRun(str) # Len(str) THEN [ok |-> FALSE, value |-> 0]
    ELSE [ok |-> TRUE, value |-> DigitsValue(str, 0)]

---------------------------------------------------------------------------
(* Names, namespaces and enumerations.                                     *)

NS_FT5 == <<"urn:xmpp:jingle:apps:file-transfer:5">>
NS_RTP == <<"urn:xmpp:jingle:apps:rtp:1">>
NS_IBB == <<"urn:xmpp:jingle:transports:ibb:1">>
NS_S5B == <<"urn:xmpp:jingle:transports:s5b:1">>

Peers == {<<"romeo">>, <<"mallory">>}
JSids == {<<"s1">>, <<"s2">>}
TSids == {<<"t1">>, <<"t2">>}
CNames == {<<"a">>, <<"b">>}
Ids == {<<"i1">>}

\* prof_jingle_creator_t _parse_content_creator(const char*)
parse_content_creator(creator_raw) ==
    IF creator_raw = NULL THEN "CREATOR_UNKNOWN"
    ELSE IF creator_raw = <<"initiator">> THEN "CREATOR_INITIATOR"
    ELSE IF creator_raw = <<"responder">> THEN "CREATOR_RESPONDER"
    ELSE "CREATOR_UNKNOWN"

\* prof_jingle_senders_t _parse_content_senders(const char*)
parse_content_senders(senders_raw) ==
    IF senders_raw = NULL THEN "SENDERS_UNKNOWN"
    ELSE IF senders_raw = <<"both">> THEN "SENDERS_BOTH"
    ELSE IF senders_raw = <<"initiator">> THEN "SENDERS_INITIATOR"
    ELSE IF senders_raw = <<"responder">> THEN "SENDERS_RESPONDER"
    ELSE IF senders_raw = <<"none">> THEN "SENDERS_NONE"
    ELSE "SENDERS_UNKNOWN"

\* const char* _stringify_senders(prof_jingle_senders_t)
stringify_senders(senders) ==
    CASE senders = "SENDERS_BOTH" -> <<"both">>
      [] senders = "SENDERS_INITIATOR" -> <<"initiator">>
      [] senders = "SENDERS_RESPONDER" -> <<"responder">>
      [] senders = "SENDERS_NONE" -> <<"none">>
      [] OTHER -> <<"unknown">>

\* content->state is never assigned by the session-initiate parser: the
\* malloc'ed field holds an indeterminate value.  The code only ever tests it
\* against PROF_JINGLE_STATE_TRANSFER_FINISHED, so the value is either that
\* constant or some other bit pattern ("INDETERMINATE").
UninitStates == {"INDETERMINATE", "TRANSFER_FINISHED"}

---------------------------------------------------------------------------
(* Outbound envelopes.                                                     *)

\* _send_ack (ibb.c and jingle.c): <iq type='result' id=... to=.../>
Ack(id, to) == [kind |-> "result", id |-> id, to |-> to]

\* _send_error: <iq type='error'><error type=...><cond/></error></iq>
Error(id, to, etype, cond) == [kind |-> "error", id |-> id, to |-> to, etype |-> etype, cond |-> cond]

\* the stanza _send_close builds: <iq type='set'><close sid=.../></iq>
Close(id, to, sid) == [kind |-> "close", id |-> id, to |-> to, sid |-> sid]

\* the stanza _terminate_session builds
Terminate(session, reason) == [kind |-> "session-terminate", to |-> session.initiator, sid |-> session.jingle_sid, reason |-> reason]

\* One <content> of the session-accept built by _accept_session.
AcceptContent(content) ==
    [creator |-> <<"initiator">>,
     senders |-> stringify_senders(content.senders),
     name |-> content.name,
     descNs |-> NS_FT5,
     file |-> content.file,
     transNs |-> NS_IBB,
     blockSize |-> uint_to_str(content.blocksize),
     tsid |-> content.tsid]

\* the stanza _accept_session builds
Accept(session) ==
    [kind |-> "session-accept", to |-> session.initiator, sid |-> session.jingle_sid,
     contents |-> {AcceptContent(session.content_table[n]) : n \in DOMAIN session.content_table}]

---------------------------------------------------------------------------
(* Hash tables.                                                            *)

\* g_hash_table_insert: the value under an existing key is replaced.
Insert(table, key, value) == [k \in DOMAIN table \cup {key} |-> IF k = key THEN value ELSE table[k]]

\* g_hash_table_remove
Remove(table, key) == [k \in DOMAIN table \ {key} |-> table[k]]

\* _jingle_session_destroy frees the contents of the session, among them the
\* file info that the transfers opened on those contents point to
\* (ibb_session_t.file): those pointers dangle from here on.
jingle_session_destroy(ibb, jsid) ==
    [t \in DOMAIN ibb |-> IF ibb[t].owner = jsid THEN [ibb[t] EXCEPT !.dangling = TRUE] ELSE ibb[t]]

---------------------------------------------------------------------------
(* Cross-layer glue (jingle.c).                                            *)

\* The intermediate state of a handler: both registries, the envelopes sent
\* so far, the contents marked so far, and whether the process still runs.
\* opened, lost and closed are the transport sids whose transfer got a sink
\* from fopen, had the pointer to an open sink overwritten, and had its sink
\* closed by fclose; a handler starts with none.
Result(js, ibb, o, m, st) ==
    [js |-> js, ibb |-> ibb, out |-> o, marked |-> m, status |-> st, opened |-> {}, lost |-> {}, closed |-> {}]

\* _get_item_by_transport_id(transport_id, FALSE): the sessions it can
\* return.  It returns the first match in hash-table iteration order; with
\* several matches any of them can be first.
SessionsByTransportId(js, transport_id) ==
    {s \in DOMAIN js : \E n \in DOMAIN js[s].content_table : js[s].content_table[n].tsid = transport_id}

\* A lookup that takes any content, whatever its transport sid.
AnyContent(js, transport_id) ==
    UNION {{<<s, n>> : n \in DOMAIN js[s].content_table} : s \in DOMAIN js}

\* get_content_by_transport_id: the <<session, content name>> pairs it can return.
ContentsByTransportId(js, transport_id) ==
    {c \in UNION {{<<s, n>> : n \in DOMAIN js[s].content_table} : s \in DOMAIN js} :
        js[c[1]].content_table[c[2]].tsid = transport_id}

\* A termination that sends and records the state in the session, which it
\* leaves in the registry.
TerminateAndKeep(r, s, reason) ==
    [r EXCEPT !.out = Append(r.out, Terminate(r.js[s], reason)), !.js[s].state = "TERMINATED"]

\* _terminate_session(session, reason): send, then g_hash_table_remove,
\* which runs _jingle_session_destroy.
terminate_session(r, s, reason) ==
    [r EXCEPT !.js = Remove(r.js, s),
              !.ibb = jingle_session_destroy(r.ibb, s),
              !.out = Append(r.out, Terminate(r.js[s], reason))]

\* A loop that assigns to every content of the session.
EveryContent(table, transport_id) == DOMAIN table

\* The contents of session s that the loop of
\* set_content_state_by_transport_id assigns to.
ContentsToMark(table, transport_id) == {n \in DOMAIN table : table[n].tsid = transport_id}

\* set_content_state_by_transport_id(transport_id, TRANSFER_FINISHED): the
\* set of results.  With no owning session, `session` is NULL and
\* session->content_table is a NULL dereference.
set_content_state_by_transport_id(r, transport_id) ==
    IF SessionsByTransportId(r.js, transport_id) = {}
    THEN {[r EXCEPT !.status = "crashed"]}
    ELSE {LET table == r.js[s].content_table
              hit == ContentsToMark(table, transport_id)
              table1 == [n \in DOMAIN table |->
                            IF n \in hit THEN [table[n] EXCEPT !.state = "TRANSFER_FINISHED"] ELSE table[n]]
              all_downloads_finished == \A n \in DOMAIN table1 : table1[n].state = "TRANSFER_FINISHED"
              r1 == [r EXCEPT !.js[s].content_table = table1,
                              !.marked = r.marked \cup {<<s, n>> : n \in hit}]
          IN  IF all_downloads_finished THEN terminate_session(r1, s, <<"success">>) ELSE r1
          : s \in SessionsByTransportId(r.js, transport_id)}

---------------------------------------------------------------------------
(* Session-initiate (jingle.c).                                            *)

\* The file description of the literal scenario: kitten.jpg.
FileInfo(size) ==
    [name |-> <<"kitten.jpg">>, type |-> <<"image/jpeg">>, date |-> <<"2023">>, size |-> size, hash |-> NULL]

\* A <content> child that passes every check of the parser.
GoodContent(name, tsid, size) ==
    [tag |-> "content",
     hasDescription |-> TRUE, descNs |-> NS_FT5,
     hasTransport |-> TRUE, transNs |-> NS_IBB,
     name |-> name, creator |-> <<"initiator">>, senders |-> <<"both">>,
     hasFile |-> TRUE, file |-> FileInfo(size),
     tsid |-> tsid, blockSize |-> <<"4", "0", "9", "6">>]

\* <iq><jingle action=... sid=... initiator=...> children </jingle></iq>
JingleEnv(id, from, action, sid, initiator, children) ==
    [kind |-> "jingle", id |-> id, from |-> from, action |-> action, sid |-> sid,
     initiator |-> initiator, children |-> children]

\* The per-content body of the while loop of _handle_session_init, lines
\* 263-375.  `table` is session->content_table so far and `st` gives the
\* indeterminate initial value of each new content's state field.
\* "hung": a `continue` that does not advance content_stanza repeats the same
\* iteration for ever.  "crashed": atoi(NULL) / strdup(NULL).
RECURSIVE ParseContents(_, _, _)
ParseContents(children, table, st) ==
    IF children = <<>> THEN [table |-> table, end |-> "running"]
    ELSE LET c    == Head(children)
             next == ParseContents(Tail(children), table, Tail(st))
         IN  IF c.tag # "content" THEN next
             ELSE IF ~c.hasDescription THEN [table |-> table, end |-> "hung"]
             ELSE IF ~c.hasTransport THEN [table |-> table, end |-> "hung"]
             ELSE IF c.transNs = NULL THEN next
             ELSE IF c.descNs = NULL THEN [table |-> table, end |-> "hung"]
             ELSE IF c.descNs # NS_FT5 THEN [table |-> table, end |-> "hung"]
             ELSE IF c.name = NULL THEN [table |-> table, end |-> "hung"]
             ELSE IF parse_content_creator(c.creator) = "CREATOR_UNKNOWN" THEN [table |-> table, end |-> "hung"]
             ELSE IF ~c.hasFile THEN next
             ELSE IF c.transNs # NS_IBB THEN next
             ELSE IF c.blockSize = NULL \/ c.tsid = NULL THEN [table |-> table, end |-> "crashed"]
             ELSE ParseContents(Tail(children),
                                Insert(table, c.name,
                                       [name |-> c.name,
                                        creator |-> parse_content_creator(c.creator),
                                        senders |-> parse_content_senders(c.senders),
                                        file |-> c.file,
                                        ttype |-> "INBANDBYTESTREAM",
                                        tsid |-> c.tsid,
                                        blocksize |-> Atoi(c.blockSize),
                                        state |-> Head(st)]),
                                Tail(st))

\* An accept that sends the session-accept twice.
AcceptTwice(r, s) ==
    [r EXCEPT !.out = Append(Append(r.out, Accept(r.js[s])), Accept(r.js[s])), !.js[s].state = "ACCEPTED"]

\* _accept_session(session): send session-accept, then state = ACCEPTED.
accept_session(r, s) ==
    [r EXCEPT !.out = Append(r.out, Accept(r.js[s])), !.js[s].state = "ACCEPTED"]

\* A session-initiate handler that acks the envelope before it looks at it.
AckUnvalidated(r, e, st) == [r EXCEPT !.out = Append(r.out, Ack(e.id, e.from))]

\* static void _handle_session_init(xmpp_stanza_t* const stanza): the result.
handle_session_init(r, e, st) ==
    IF e.sid = NULL \/ e.initiator = NULL \/ e.initiator # e.from
    THEN r
    ELSE LET session == [initiator |-> e.initiator, jingle_sid |-> e.sid,
                         state |-> "INITIATED", content_table |-> <<>>]
             \* g_hash_table_insert destroys a session already stored under sid
             r1 == [r EXCEPT !.out = Append(r.out, Ack(e.id, e.from)),
                             !.js = Insert(r.js, e.sid, session),
                             !.ibb = IF e.sid \in DOMAIN r.js
                                     THEN jingle_session_destroy(r.ibb, e.sid) ELSE r.ibb]
             p  == ParseContents(e.children, <<>>, st)
             r2 == [r1 EXCEPT !.js[e.sid].content_table = p.table, !.status = p.end]
         IN  IF e.children = <<>> THEN terminate_session(r1, e.sid, <<"cancel">>)
             ELSE IF p.end = "running" THEN accept_session(r2, e.sid)
             ELSE r2

\* A terminate handler that answers the envelope with a result ack.
AckTerminate(r, e) == [r EXCEPT !.out = Append(r.out, Ack(e.id, e.from))]

\* static gboolean _handle_terminate_session: the body is the comment
\* "// delete" and `return TRUE`.
handle_terminate_session(r, e) == r

\* handle_jingle_iq: dispatch on the action attribute.
handle_jingle_iq(r, e, st) ==
    IF e.action = NULL THEN r
    ELSE IF e.action = <<"session-initiate">> THEN handle_session_init(r, e, st)
    ELSE IF e.action = <<"session-terminate">> THEN handle_terminate_session(r, e)
    ELSE r

---------------------------------------------------------------------------
(* ibb.c                                                                   *)

\* <iq id=... from=...><open|data|close sid=... /></iq>.  `body` is the text
\* of a <data> element: whether there is any text, the length it decodes to
\* (dec) and the number of decoded bytes before the first NUL byte (wr).
IbbEnv(verb, id, from, sid, blockSize, seq, body) ==
    [kind |-> "ibb", verb |-> verb, id |-> id, from |-> from, sid |-> sid,
     blockSize |-> blockSize, seq |-> seq, body |-> body]

NoBody == [text |-> FALSE, dec |-> 0, wr |-> 0]

\* Values a read through a dangling ibb_session_t.file can give for the
\* parsed file size.
DanglingSizes == {0, UInt16Max}

\* string_to_ul(session->file->size, &file_size) at line 276, as a set of
\* outcomes [end, ok, value].  Through a dangling pointer the read is
\* undefined: it faults ("crashed"), or gives a string that does not parse,
\* or one that parses to some number; the old value may also still be there.
FileSizeOutcomes(t) ==
    LET intact == [end |-> "read"] @@ string_to_ul(t.file.size)
    IN  IF t.dangling
        THEN {intact, [end |-> "crashed", ok |-> FALSE, value |-> 0], [end |-> "read", ok |-> FALSE, value |-> 0]}
             \cup {[end |-> "read", ok |-> TRUE, value |-> v] : v \in DanglingSizes}
        ELSE {intact}

\* _ibb_session_destroy, run by g_hash_table_remove: prints
\* session->file->name and closes the stream when there is one.  Through a
\* dangling file pointer the print may fault.
ibb_session_destroy(r, sid) ==
    {[r EXCEPT !.ibb = Remove(r.ibb, sid),
               !.closed = IF r.ibb[sid].stream THEN r.closed \cup {sid} ELSE r.closed]}
    \cup (IF r.ibb[sid].dangling THEN {[r EXCEPT !.ibb = Remove(r.ibb, sid), !.status = "crashed"]} ELSE {})

\* Lines 403-410 of _send_close and 308-316 of _on_bytestream_close:
\* g_hash_table_remove, then set_content_state_by_transport_id.
RemoveAndMark(r, sid) ==
    UNION {IF r2.status = "crashed" THEN {r2} ELSE set_content_state_by_transport_id(r2, sid)
           : r2 \in ibb_session_destroy(r, sid)}

\* A close that is sent while the transfer is left in the registry.
CloseAndKeep(r, id, target, sid) == {[r EXCEPT !.out = Append(r.out, Close(id, target, sid))]}

\* static void _send_close(id, target, sid): the set of results.  id,
\* target and sid are never NULL where the handlers call it.
send_close(r, id, target, sid) ==
    LET r1 == [r EXCEPT !.out = Append(r.out, Close(id, target, sid))]
    IN  IF sid \notin DOMAIN r1.ibb THEN {r1} ELSE RemoveAndMark(r1, sid)

\* The ibb_session_t that _on_bytestream_open allocates for `content` of
\* session s.  pos is the position of the stream (ftell); owner and dangling
\* say whose file info `file` points to and whether it has been freed.
NewTransfer(content, s) ==
    [file |-> content.file, seq |-> 0, stream |-> FALSE, pos |-> 0, owner |-> s, dangling |-> FALSE]

\* The comparison of line 171: g_strcmp0 of the "%u" rendering of the
\* negotiated block size with the attribute text.
BlockSizeMatches(content, stanza_block_size) ==
    StrEq(uint_to_str(content.blocksize), stanza_block_size)

\* static void _on_bytestream_open(xmpp_stanza_t* stanza): the set of results.
on_bytestream_open(r, e) ==
    IF e.sid = NULL
    THEN \* g_hash_table_contains hashes the key with g_str_hash(NULL)
         {[r EXCEPT !.status = "crashed"]}
    ELSE IF e.sid \in DOMAIN r.ibb
    THEN {[r EXCEPT !.out = Append(r.out, Error(e.id, e.from, "cancel", "not-acceptable"))]}
    ELSE IF ContentsByTransportId(r.js, e.sid) = {}
    THEN {[r EXCEPT !.out = Append(r.out, Error(e.id, e.from, "cancel", "not-acceptable"))]}
    ELSE {LET content == r.js[c[1]].content_table[c[2]]
          IN  IF content.ttype # "INBANDBYTESTREAM"
              THEN [r EXCEPT !.out = Append(r.out, Error(e.id, e.from, "cancel", "not-acceptable"))]
              ELSE IF ~BlockSizeMatches(content, e.blockSize)
              THEN [r EXCEPT !.out = Append(r.out, Error(e.id, e.from, "modify", "resource-constraint"))]
              ELSE [r EXCEPT !.ibb = Insert(r.ibb, e.sid, NewTransfer(content, c[1])),
                             !.out = Append(r.out, Ack(e.id, e.from))]
          : c \in ContentsByTransportId(r.js, e.sid)}

\* The test of line 289 on the stream position after the write.
Finished(pos, file_size) == pos >= file_size

\* Lines 274-292 of _on_bytestream_data: parse the size, write, ack, and
\* close when the stream position has reached the size.  `t` is the transfer
\* after the sequence step.
WriteBlock(r, e, t) ==
    UNION {IF z.end = "crashed" THEN {[r EXCEPT !.status = "crashed"]}
           ELSE IF ~z.ok THEN send_close(r, e.id, e.from, e.sid)
           ELSE LET pos == t.pos + e.body.wr
                    r1  == [r EXCEPT !.ibb[e.sid] = [t EXCEPT !.pos = pos],
                                     !.out = Append(r.out, Ack(e.id, e.from))]
                IN  IF Finished(pos, z.value) THEN send_close(r1, e.id, e.from, e.sid) ELSE {r1}
           : z \in FileSizeOutcomes(t)}

\* The test of line 261: session->seq + 1 != seq, computed in int.
WrongSeq(session_seq, seq) == session_seq + 1 # seq

\* The sequence step of _on_bytestream_data, lines 249-272, followed by the
\* write.  `fopenOk`: whether fopen(file_location, "wb") gives a stream.
SeqStep(r, e, seq, fopenOk) ==
    LET t == r.ibb[e.sid]
    IN  IF seq = 0
        THEN IF t.seq # 0 THEN send_close(r, e.id, e.from, e.sid)
             ELSE \* session->file->name is read to build the file location
                  (IF t.dangling THEN {[r EXCEPT !.status = "crashed"]} ELSE {})
                  \* session->stream = fopen(...) overwrites the pointer it held
                  \cup (LET r0 == [r EXCEPT !.lost = IF t.stream THEN r.lost \cup {e.sid} ELSE r.lost]
                        IN  IF ~fopenOk
                            THEN send_close([r0 EXCEPT !.ibb[e.sid].stream = FALSE], e.id, e.from, e.sid)
                            ELSE LET t1 == [t EXCEPT !.stream = TRUE, !.pos = 0]
                                 IN  WriteBlock([r0 EXCEPT !.ibb[e.sid] = t1,
                                                           !.opened = r0.opened \cup {e.sid}], e, t1))
        ELSE IF WrongSeq(t.seq, seq) THEN send_close(r, e.id, e.from, e.sid)
        ELSE LET t1 == [t EXCEPT !.seq = (t.seq + 1) % (UInt16Max + 1)]
                 r1 == [r EXCEPT !.ibb[e.sid] = t1]
             IN  IF ~t1.stream THEN send_close(r1, e.id, e.from, e.sid)
                 ELSE WriteBlock(r1, e, t1)

\* A data handler that resolves the transfer before it looks at seq and text.
LookupFirst(r, e, fopenOk) ==
    IF e.sid = NULL THEN {r}
    ELSE IF e.sid \notin DOMAIN r.ibb
    THEN {[r EXCEPT !.out = Append(r.out, Error(e.id, e.from, "cancel", "item-not-found"))]}
    ELSE {r}

\* static void _on_bytestream_data(xmpp_stanza_t* stanza): the set of results.
on_bytestream_data(r, e, fopenOk) ==
    LET c == convert_str_to_uint16(e.seq)
    IN  IF e.sid = NULL THEN {r}
        ELSE IF e.seq = NULL \/ ~c.ok THEN {r}
        ELSE IF ~e.body.text
        THEN \* g_base64_decode(NULL, ...) returns NULL
             {[r EXCEPT !.out = Append(r.out, Error(e.id, e.from, "cancel", "bad-request"))]}
        ELSE IF e.sid \notin DOMAIN r.ibb
        THEN {[r EXCEPT !.out = Append(r.out, Error(e.id, e.from, "cancel", "item-not-found"))]}
        ELSE SeqStep(r, e, c.value, fopenOk)

\* A close handler that removes the transfer and then answers with an error.
RemoveThenError(r, e) ==
    IF e.sid = NULL \/ e.sid \notin DOMAIN r.ibb
    THEN {[r EXCEPT !.out = Append(r.out, Error(e.id, e.from, "cancel", "item-not-found"))]}
    ELSE {[r EXCEPT !.ibb = Remove(r.ibb, e.sid),
                    !.out = Append(r.out, Error(e.id, e.from, "cancel", "item-not-found"))]}

\* static void _on_bytestream_close(xmpp_stanza_t* stanza): the set of results.
on_bytestream_close(r, e) ==
    IF e.sid = NULL
    THEN {[r EXCEPT !.out = Append(r.out, Error(e.id, e.from, "cancel", "item-not-found"))]}
    ELSE IF e.sid \notin DOMAIN r.ibb
    THEN {[r EXCEPT !.out = Append(r.out, Error(e.id, e.from, "cancel", "item-not-found"))]}
    ELSE {IF r2.status = "crashed" THEN r2 ELSE [r2 EXCEPT !.out = Append(r2.out, Ack(e.id, e.from))]
          : r2 \in RemoveAndMark(r, e.sid)}

\* void handle_ibb(xmpp_stanza_t* stanza): dispatch on the tag name.
handle_ibb(r, e, fopenOk) ==
    IF e.verb = "open" THEN on_bytestream_open(r, e)
    ELSE IF e.verb = "data" THEN on_bytestream_data(r, e, fopenOk)
    ELSE IF e.verb = "close" THEN on_bytestream_close(r, e)
    ELSE {r}

---------------------------------------------------------------------------
(* The envelopes the peer sends.                                           *)

\* The peer that opens sessions; envelopes arrive from any peer.
Initiator == <<"romeo">>

\* Contents the parser takes.  Declared file sizes: two bytes, and a size
\* that is no numeral.  One content is created by the responder and sent by
\* the initiator alone.
GoodContents ==
    {GoodContent(<<"a">>, <<"t1">>, <<"2">>),
     [GoodContent(<<"b">>, <<"t1">>, <<"2">>) EXCEPT !.creator = <<"responder">>, !.senders = <<"initiator">>],
     GoodContent(<<"b">>, <<"t2">>, <<"2">>), GoodContent(<<"b">>, <<"t2">>, <<"x">>)}

\* The contents of the session-initiates that follow the first one of a
\* behaviour.
LaterContents == {GoodContent(<<"a">>, <<"t1">>, <<"2">>)}

\* One child for every way the parser turns a child down.
BadContents ==
    LET g == GoodContent(<<"a">>, <<"t1">>, <<"2">>)
    IN  {[g EXCEPT !.tag = "reason"],
         [g EXCEPT !.hasDescription = FALSE],
         [g EXCEPT !.hasTransport = FALSE],
         [g EXCEPT !.transNs = NULL],
         [g EXCEPT !.descNs = NULL],
         [g EXCEPT !.descNs = NS_RTP],
         [g EXCEPT !.name = NULL],
         [g EXCEPT !.creator = NULL],
         [g EXCEPT !.creator = <<"nobody">>],
         [g EXCEPT !.hasFile = FALSE],
         [g EXCEPT !.transNs = NS_S5B],
         [g EXCEPT !.blockSize = NULL],
         [g EXCEPT !.tsid = NULL]}

RECURSIVE SeqsUpTo(_, _)
SeqsUpTo(S, n) ==
    IF n = 0 THEN {<<>>}
    ELSE LET shorter == SeqsUpTo(S, n - 1)
         IN  shorter \cup {Append(q, x) : q \in {r \in shorter : Len(r) = n - 1}, x \in S}

\* Children of <jingle>: up to MaxContents good contents, and every bad
\* content alone, before and after a good one.
ChildrenMenu ==
    LET g == GoodContent(<<"b">>, <<"t2">>, <<"2">>)
    IN  SeqsUpTo(GoodContents, MaxContents)
        \cup {<<b>> : b \in BadContents} \cup {<<g, b>> : b \in BadContents} \cup {<<b, g>> : b \in BadContents}

\* Children of the session-initiates after the first.
LaterMenu == {<<c>> : c \in LaterContents}

\* session-initiate envelopes: the structurally valid ones, and one for each
\* structural check that fails.
InitiateEnvs(sids, menu) ==
    LET g == <<GoodContent(<<"a">>, <<"t1">>, <<"2">>)>>
    IN  {JingleEnv(id, Initiator, <<"session-initiate">>, sid, Initiator, ch)
            : id \in Ids, sid \in sids, ch \in menu}
        \cup {JingleEnv(id, Initiator, <<"session-initiate">>, NULL, Initiator, g) : id \in Ids}
        \cup {JingleEnv(id, Initiator, <<"session-initiate">>, sid, NULL, g) : id \in Ids, sid \in JSids}
        \cup {JingleEnv(id, <<"mallory">>, <<"session-initiate">>, sid, Initiator, g) : id \in Ids, sid \in JSids}

JingleActions ==
    {<<"session-initiate">>, <<"session-terminate">>, <<"session-info">>, <<"session-accept">>,
     <<"transport-accept">>, <<"transport-info">>, <<"transport-reject">>, <<"transport-replace">>}

TerminateEnvs ==
    {JingleEnv(id, Initiator, <<"session-terminate">>, sid, NULL, <<>>) : id \in Ids, sid \in JSids}

OtherJingleEnvs ==
    {JingleEnv(id, Initiator, action, <<"s1">>, NULL, <<>>)
        : id \in Ids,
          action \in (JingleActions \ {<<"session-initiate">>, <<"session-terminate">>}) \cup {NULL}}

\* Values of the block-size attribute of <open>: the negotiated size, its
\* neighbours, the negotiated size with a leading zero, and no attribute.
OpenBlockSizes ==
    {<<"4", "0", "9", "6">>, <<"4", "0", "9", "5">>, <<"4", "0", "9", "7">>, <<"0", "4", "0", "9", "6">>, NULL}

IbbSids == TSids \cup {NULL}

OpenEnvs ==
    {IbbEnv("open", id, Initiator, sid, bs, NULL, NoBody) : id \in Ids, sid \in TSids, bs \in OpenBlockSizes}
    \cup {IbbEnv("open", id, Initiator, NULL, <<"4", "0", "9", "6">>, NULL, NoBody) : id \in Ids}

\* seq attributes that do not: the first value past 16 bits, a non-numeral,
\* and no attribute.
SeqJunk == {uint_to_str(UInt16Max + 1), <<"x">>, NULL}

\* A <data> text that decodes to dec bytes, the first wr of them not NUL.
Body(dec, wr) == [text |-> TRUE, dec |-> dec, wr |-> wr]

\* <data> texts: 1..MaxBlock bytes without a NUL byte, and one byte that is NUL.
TextBodies == {Body(d, d) : d \in 1..MaxBlock} \cup {Body(1, 0)}

\* <data> envelopes: the well-formed ones, and the malformed ones: a seq that
\* does not parse, no text, no sid.
DataEnvs ==
    {IbbEnv("data", id, Initiator, sid, NULL, uint_to_str(n), body)
        : id \in Ids, sid \in TSids, n \in 0..MaxSeq, body \in TextBodies}
    \cup {IbbEnv("data", id, Initiator, sid, NULL, uint_to_str(UInt16Max), Body(1, 1)) : id \in Ids, sid \in TSids}
    \cup {IbbEnv("data", id, Initiator, sid, NULL, seq, Body(1, 1)) : id \in Ids, sid \in IbbSids, seq \in SeqJunk}
    \cup {IbbEnv("data", id, Initiator, sid, NULL, uint_to_str(0), NoBody) : id \in Ids, sid \in IbbSids}
    \cup {IbbEnv("data", id, Initiator, NULL, NULL, uint_to_str(0), Body(1, 1)) : id \in Ids}

CloseEnvs ==
    {IbbEnv("close", id, from, sid, NULL, NULL, NoBody) : id \in Ids, from \in Peers, sid \in IbbSids}

---------------------------------------------------------------------------
(* Dispatch and the specification.                                         *)

\* The state a handler starts from.
Start == Result(jingle_sessions, ibb_sessions, <<>>, {}, "running")

\* The state a handler leaves behind.
Commit(r) ==
    /\ jingle_sessions' = r.js
    /\ ibb_sessions' = r.ibb
    /\ out' = r.out
    /\ status' = r.status

\* handle_jingle_iq, action "session-initiate"
SessionInitiate ==
    /\ status = "running"
    /\ nInit < MaxInitiates
    /\ \E e \in (IF nInit = 0 THEN InitiateEnvs({<<"s1">>}, ChildrenMenu) ELSE InitiateEnvs(JSids, LaterMenu)) :
          \E st \in [1..Len(e.children) -> UninitStates] :
              \E r \in {handle_jingle_iq(Start, e, st)} :
                  /\ Commit(r)
                  /\ nInit' = IF r.out = <<>> THEN nInit ELSE nInit + 1

\* handle_jingle_iq, action "session-terminate"
SessionTerminate ==
    /\ status = "running"
    /\ UNCHANGED nInit
    /\ \E e \in TerminateEnvs : \E r \in {handle_jingle_iq(Start, e, <<>>)} : Commit(r)

\* handle_jingle_iq, the actions with an empty branch, and a missing action
JingleOther ==
    /\ status = "running"
    /\ UNCHANGED nInit
    /\ \E e \in OtherJingleEnvs : \E r \in {handle_jingle_iq(Start, e, <<>>)} : Commit(r)

\* handle_ibb, tag "open"
BytestreamOpen ==
    /\ status = "running"
    /\ UNCHANGED nInit
    /\ \E e \in OpenEnvs : \E r \in handle_ibb(Start, e, TRUE) : Commit(r)

\* Whether fopen(file_location, "wb") of line 256 gives a stream: either,
\* where the handler can get that far.
FopenOutcomes(e) == IF convert_str_to_uint16(e.seq).value = 0 /\ e.sid # NULL THEN BOOLEAN ELSE {TRUE}

\* handle_ibb, tag "data"
BytestreamData ==
    /\ status = "running"
    /\ UNCHANGED nInit
    /\ \E e \in DataEnvs : \E fopenOk \in FopenOutcomes(e) : \E r \in handle_ibb(Start, e, fopenOk) : Commit(r)

\* handle_ibb, tag "close"
BytestreamClose ==
    /\ status = "running"
    /\ UNCHANGED nInit
    /\ \E e \in CloseEnvs : \E r \in handle_ibb(Start, e, TRUE) : Commit(r)

\* jingle_init and ibb_init: two empty hash tables.
Init ==
    /\ jingle_sessions = <<>>
    /\ ibb_sessions = <<>>
    /\ out = <<>>
    /\ status = "running"
    /\ nInit = 0

Next ==
    \/ SessionInitiate
    \/ SessionTerminate
    \/ JingleOther
    \/ BytestreamOpen
    \/ BytestreamData
    \/ BytestreamClose

Spec == Init /\ [][Next]_vars

\* A transfer two blocks before the last 16-bit sequence number: the state
\* after session-initiate s1 (content a, transport t1, two bytes), open t1
\* and blocks 0..65534 of which at most one wrote a byte (the others start
\* with a NUL byte, of which fprintf("%.*s") writes nothing).
InitWrap ==
    /\ jingle_sessions =
           Insert(<<>>, <<"s1">>,
                  [initiator |-> Initiator, jingle_sid |-> <<"s1">>, state |-> "ACCEPTED",
                   content_table |->
                       Insert(<<>>, <<"a">>,
                              [name |-> <<"a">>, creator |-> "CREATOR_INITIATOR", senders |-> "SENDERS_BOTH",
                               file |-> FileInfo(<<"2">>), ttype |-> "INBANDBYTESTREAM", tsid |-> <<"t1">>,
                               blocksize |-> 4096, state |-> "INDETERMINATE"])])
    /\ \E p \in 0..1 :
           ibb_sessions =
               Insert(<<>>, <<"t1">>,
                      [file |-> FileInfo(<<"2">>), seq |-> UInt16Max - 1, stream |-> TRUE, pos |-> p,
                       owner |-> <<"s1">>, dangling |-> FALSE])
    /\ out = <<Ack(<<"i1">>, Initiator)>>
    /\ status = "running"
    /\ nInit = 1

SpecWrap == InitWrap /\ [][Next]_vars

---------------------------------------------------------------------------
(* Properties.  Each is stated over the envelopes that can be dispatched   *)
(* from a reachable state and the results the handler can give for them.   *)

\* A <data> envelope with a sid, a seq that parses and a text.
WellFormedData(e) == e.sid # NULL /\ e.seq # NULL /\ convert_str_to_uint16(e.seq).ok /\ e.body.text

SeqOf(e) == convert_str_to_uint16(e.seq).value

\* Every result of dispatching the <data> envelope e from the current state.
DataResults(e) == UNION {handle_ibb(Start, e, f) : f \in FopenOutcomes(e)}

\* The transport sids of the contents of session s.
TransportSidsOf(s) == {jingle_sessions[s].content_table[n].tsid : n \in DOMAIN jingle_sessions[s].content_table}

\* The contents, over all sessions, whose transport sid is t.
ContentsOn(t) ==
    {c \in UNION {{<<s, n>> : n \in DOMAIN jingle_sessions[s].content_table} : s \in DOMAIN jingle_sessions} :
        jingle_sessions[c[1]].content_table[c[2]].tsid = t}

NotFound(e) == Error(e.id, e.from, "cancel", "item-not-found")

\* C1: after an inbound session-terminate naming a session of the registry,
\* the session is gone, no transfer on a transport sid of its contents
\* remains, and a later data envelope for such a sid gets item-not-found.
C1_TerminateRemovesSession ==
    status = "running" =>
        \A e \in TerminateEnvs :
            e.sid \in DOMAIN jingle_sessions =>
                LET r == handle_jingle_iq(Start, e, <<>>)
                IN  /\ e.sid \notin DOMAIN r.js
                    /\ \A t \in TransportSidsOf(e.sid) : t \notin DOMAIN r.ibb
                    /\ \A d \in DataEnvs :
                           (WellFormedData(d) /\ d.sid \in TransportSidsOf(e.sid)) =>
                               \A f \in FopenOutcomes(d) : \A r2 \in handle_ibb([r EXCEPT !.out = <<>>], d, f) :
                                   r2.out = <<NotFound(d)>>

\* C2: marking by transport sid sets the state of the contents of the
\* resolved session that carry that sid to TRANSFER_FINISHED and leaves the
\* other contents alone; session-terminate/success is sent and the session
\* removed exactly when every content of that session is then finished,
\* otherwise nothing is sent and the session stays.
C2_MarkFinished ==
    status = "running" =>
        \A t \in TSids :
            ContentsOn(t) # {} =>
                \A r \in set_content_state_by_transport_id(Start, t) :
                    \E s \in {c[1] : c \in ContentsOn(t)} :
                        LET before == jingle_sessions[s].content_table
                            hit    == {n \in DOMAIN before : before[n].tsid = t}
                            all    == \A n \in DOMAIN before : n \in hit \/ before[n].state = "TRANSFER_FINISHED"
                        IN  /\ r.marked = {<<s, n>> : n \in hit}
                            /\ r.status = "running"
                            /\ all => /\ r.out = <<Terminate(jingle_sessions[s], <<"success">>)>>
                                      /\ s \notin DOMAIN r.js
                            /\ ~all => /\ r.out = <<>>
                                       /\ s \in DOMAIN r.js
                                       /\ DOMAIN r.js[s].content_table = DOMAIN before
                                       /\ \A n \in DOMAIN before :
                                              r.js[s].content_table[n].state =
                                                  IF n \in hit THEN "TRANSFER_FINISHED" ELSE before[n].state

\* A dispatch has just closed a transfer and marked its content, the session
\* stays because another content is unfinished, and marking that one too
\* ends the session.
C2_Witness ==
    /\ status = "running"
    /\ \E i \in 1..Len(out) : \E s \in DOMAIN jingle_sessions :
           LET table == jingle_sessions[s].content_table
           IN  /\ out[i].kind = "close"
               /\ \E n \in DOMAIN table : table[n].tsid = out[i].sid /\ table[n].state = "TRANSFER_FINISHED"
               /\ \E n \in DOMAIN table : table[n].state # "TRANSFER_FINISHED"
               /\ \E t \in TSids : \E r \in set_content_state_by_transport_id(Start, t) :
                      /\ s \notin DOMAIN r.js
                      /\ r.out = <<Terminate(jingle_sessions[s], <<"success">>)>>

\* The stream position after the block of e is written on transfer t.
WrittenAfter(t, e) == (IF SeqOf(e) = 0 THEN 0 ELSE t.pos) + e.body.wr

\* No result ack is among the envelopes o.
NoAck(o) == \A i \in 1..Len(o) : o[i].kind # "result"

\* Result r aborted the transfer of e: a close for the sid goes out, nothing
\* is acked, and the transfer is gone.
Aborted(r, e) ==
    /\ Len(r.out) >= 1
    /\ r.out[1] = Close(e.id, e.from, e.sid)
    /\ NoAck(r.out)
    /\ e.sid \notin DOMAIN r.ibb

\* C3: an accepted block that brings the bytes written to the file size or
\* past it is acked, then a close for the sid goes out in the same dispatch,
\* the transfer is removed and its content is marked TRANSFER_FINISHED; an
\* accepted block that stays below the size is acked only and the transfer
\* remains.
C3_CompletionAckThenClose ==
    status = "running" =>
        \A e \in DataEnvs :
            (WellFormedData(e) /\ e.sid \in DOMAIN ibb_sessions) =>
                LET t        == ibb_sessions[e.sid]
                    size     == string_to_ul(t.file.size)
                    inOrder  == IF SeqOf(e) = 0 THEN t.seq = 0 /\ ~t.stream ELSE SeqOf(e) = t.seq + 1 /\ t.stream
                IN  (inOrder /\ size.ok) =>
                        \A r \in handle_ibb(Start, e, TRUE) :
                            IF WrittenAfter(t, e) >= size.value
                            THEN /\ r.status = "running"
                                 /\ Len(r.out) >= 2
                                 /\ r.out[1] = Ack(e.id, e.from)
                                 /\ r.out[2] = Close(e.id, e.from, e.sid)
                                 /\ e.sid \notin DOMAIN r.ibb
                                 /\ \E c \in r.marked : c[1] = t.owner
                            ELSE /\ r.out = <<Ack(e.id, e.from)>>
                                 /\ e.sid \in DOMAIN r.ibb

\* C4: on a transfer that has accepted blocks 0..n, the block with seq n+1
\* is acked and counted, and a block with any other seq is not: a close for
\* the sid goes out and the transfer is removed.
C4_SequenceMonotonic ==
    status = "running" =>
        \A e \in DataEnvs :
            (WellFormedData(e) /\ e.sid \in DOMAIN ibb_sessions /\ ibb_sessions[e.sid].stream) =>
                LET n == ibb_sessions[e.sid].seq
                IN  \A r \in DataResults(e) :
                        IF SeqOf(e) = n + 1
                        THEN /\ Len(r.out) >= 1
                             /\ r.out[1] = Ack(e.id, e.from)
                             /\ e.sid \in DOMAIN r.ibb => r.ibb[e.sid].seq = n + 1
                        ELSE Aborted(r, e)

\* C5: a block with seq 0 that arrives when the transfer is not at its
\* initial point (a block has been accepted or a sink is open) is not
\* written: a close goes out and the transfer is removed.
C5_SeqZeroOnlyInitial ==
    status = "running" =>
        \A e \in DataEnvs :
            (WellFormedData(e) /\ SeqOf(e) = 0 /\ e.sid \in DOMAIN ibb_sessions
                /\ (ibb_sessions[e.sid].seq # 0 \/ ibb_sessions[e.sid].stream)) =>
                \A r \in DataResults(e) : Aborted(r, e)

\* C6: after the block with seq 65535 has been accepted, the block with seq
\* 0 is the next expected one and is accepted.
C6_SeqWraps ==
    status = "running" =>
        \A e \in DataEnvs :
            (WellFormedData(e) /\ SeqOf(e) = 0 /\ e.sid \in DOMAIN ibb_sessions
                /\ ibb_sessions[e.sid].stream /\ ibb_sessions[e.sid].seq = UInt16Max
                /\ ~ibb_sessions[e.sid].dangling) =>
                \A r \in handle_ibb(Start, e, TRUE) :
                    /\ Len(r.out) >= 1
                    /\ r.out[1] = Ack(e.id, e.from)

NotAcceptable(e) == Error(e.id, e.from, "cancel", "not-acceptable")

\* C7: an open whose sid is already in the transfer registry, or for whose
\* sid no session holds a content with an in-band-bytestream transport, gets
\* cancel / not-acceptable; no transfer is created and every existing
\* transfer keeps its sequence position and sink.
C7_OpenRefused ==
    status = "running" =>
        \A e \in OpenEnvs :
            (e.sid # NULL /\ (e.sid \in DOMAIN ibb_sessions \/ ContentsOn(e.sid) = {})) =>
                \A r \in handle_ibb(Start, e, TRUE) :
                    /\ r.out = <<NotAcceptable(e)>>
                    /\ r.ibb = ibb_sessions
                    /\ r.js = jingle_sessions
                    /\ r.status = "running"

\* The last dispatch answered not-acceptable while a transfer that has
\* accepted two blocks is in the registry, and the other transport sid
\* belongs to no content.
C7_Witness ==
    /\ status = "running"
    /\ out = <<Error(<<"i1">>, Initiator, "cancel", "not-acceptable")>>
    /\ \E t \in DOMAIN ibb_sessions : ibb_sessions[t].stream /\ ibb_sessions[t].seq = 1
    /\ \E t \in TSids : t \notin DOMAIN ibb_sessions /\ ContentsOn(t) = {}

\* The value of a block-size attribute read as a decimal integer; -1 when it
\* is absent or not a numeral.
DecimalValue(str) == IF str = NULL \/ str = <<>> \/ DigitRun(str) # Len(str) THEN 0 - 1 ELSE DigitsValue(str, 0)

\* C8: an open whose sid is not in the transfer registry and resolves to a
\* content: when its block-size equals the negotiated one as decimal
\* integers, one transfer with sequence position 0 and no sink is inserted
\* under the sid and a result ack is sent; when it differs, modify /
\* resource-constraint is sent and no transfer is created.
C8_BlockSizeAsIntegers ==
    status = "running" =>
        \A e \in OpenEnvs :
            (e.sid # NULL /\ e.sid \notin DOMAIN ibb_sessions /\ ContentsOn(e.sid) # {}) =>
                \A r \in handle_ibb(Start, e, TRUE) :
                    \E c \in ContentsOn(e.sid) :
                        IF DecimalValue(e.blockSize) = jingle_sessions[c[1]].content_table[c[2]].blocksize
                        THEN /\ r.out = <<Ack(e.id, e.from)>>
                             /\ DOMAIN r.ibb = DOMAIN ibb_sessions \cup {e.sid}
                             /\ r.ibb[e.sid].seq = 0
                             /\ ~r.ibb[e.sid].stream
                             /\ \A t \in DOMAIN ibb_sessions : r.ibb[t] = ibb_sessions[t]
                        ELSE /\ r.out = <<Error(e.id, e.from, "modify", "resource-constraint")>>
                             /\ r.ibb = ibb_sessions

\* C9 as stated: a data envelope whose sid is not in the transfer registry
\* gets cancel / item-not-found and changes neither registry, whether or not
\* its seq parses and its text decodes.
C9_LookupIsFirst ==
    status = "running" =>
        \A e \in DataEnvs :
            (e.sid # NULL /\ e.sid \notin DOMAIN ibb_sessions) =>
                \A r \in DataResults(e) :
                    /\ r.out = <<NotFound(e)>>
                    /\ r.ibb = ibb_sessions
                    /\ r.js = jingle_sessions

\* C9 amended: a data envelope whose sid is not in the transfer registry
\* changes neither registry; it is dropped without a reply when its seq is
\* missing or does not parse, gets cancel / bad-request when seq parses and
\* the text is missing, and gets cancel / item-not-found otherwise.
C9_UnknownSidData ==
    status = "running" =>
        \A e \in DataEnvs :
            (e.sid # NULL /\ e.sid \notin DOMAIN ibb_sessions) =>
                \A r \in DataResults(e) :
                    /\ r.ibb = ibb_sessions
                    /\ r.js = jingle_sessions
                    /\ r.status = "running"
                    /\ r.out = IF e.seq = NULL \/ ~convert_str_to_uint16(e.seq).ok THEN <<>>
                               ELSE IF ~e.body.text THEN <<Error(e.id, e.from, "cancel", "bad-request")>>
                               ELSE <<NotFound(e)>>

\* A transfer is under way on one transport sid, the last dispatch answered
\* item-not-found, and a well-formed data envelope for the other sid, which
\* is not in the registry, is answered item-not-found from here.
C9_Witness ==
    /\ status = "running"
    /\ out = <<Error(<<"i1">>, Initiator, "cancel", "item-not-found")>>
    /\ \E t \in DOMAIN ibb_sessions : ibb_sessions[t].stream
    /\ \E e \in DataEnvs :
           /\ WellFormedData(e)
           /\ e.sid \notin DOMAIN ibb_sessions
           /\ ContentsOn(e.sid) # {}
           /\ DataResults(e) = {[Start EXCEPT !.out = <<NotFound(e)>>]}

\* C10: an inbound close for a sid that is not in the transfer registry gets
\* cancel / item-not-found and changes nothing; for a sid in the registry
\* the transfer is removed, the content it was opened on is marked
\* TRANSFER_FINISHED and a result ack is sent.
C10_InboundClose ==
    status = "running" =>
        \A e \in CloseEnvs :
            \A r \in handle_ibb(Start, e, TRUE) :
                IF e.sid \notin DOMAIN ibb_sessions
                THEN /\ r.out = <<NotFound(e)>>
                     /\ r.ibb = ibb_sessions
                     /\ r.js = jingle_sessions
                ELSE /\ r.status = "running"
                     /\ e.sid \notin DOMAIN r.ibb
                     /\ \E c \in r.marked : c[1] = ibb_sessions[e.sid].owner
                     /\ Len(r.out) >= 1
                     /\ r.out[Len(r.out)] = Ack(e.id, e.from)
                     /\ \A k \in 1..Len(r.out) : r.out[k].kind \notin {"error", "close"}

\* A result ack is among the envelopes o.
HasAck(o) == \E i \in 1..Len(o) : o[i].kind = "result"

\* An outbound close for transport sid t is among the envelopes o.
HasClose(o, t) == \E i \in 1..Len(o) : o[i].kind = "close" /\ o[i].sid = t

\* The <data> and <close> envelopes that name transport sid t.
DataAndCloseFor(t) == {e \in DataEnvs \cup CloseEnvs : e.sid = t}

\* Every result of dispatching the IBB envelope e from the current state.
IbbResults(e) == UNION {handle_ibb(Start, e, f) : f \in FopenOutcomes(e)}

\* C11 as stated: a data envelope is acked only while a transfer for its sid
\* is in the registry, and once a transfer has been closed every data or
\* close for its sid gets item-not-found.
C11_EveryDataAfterClose ==
    status = "running" =>
        /\ \A e \in DataEnvs :
               e.sid # NULL => \A r \in IbbResults(e) : HasAck(r.out) => e.sid \in DOMAIN ibb_sessions
        /\ \A t \in TSids :
               HasClose(out, t) =>
                   /\ t \notin DOMAIN ibb_sessions
                   /\ \A e \in DataAndCloseFor(t) : \A r \in IbbResults(e) : r.out = <<NotFound(e)>>

\* C11 amended: a data envelope is acked only while a transfer for its sid
\* is in the registry; a close, inbound or outbound, takes the transfer out
\* of the registry; and while the sid is not in the registry every close,
\* and every data envelope whose seq parses and whose text is present, gets
\* item-not-found and leaves the registries alone.
C11_OpenDataClose ==
    status = "running" =>
        /\ \A e \in DataEnvs :
               e.sid # NULL => \A r \in IbbResults(e) : HasAck(r.out) => e.sid \in DOMAIN ibb_sessions
        /\ \A t \in TSids : HasClose(out, t) => t \notin DOMAIN ibb_sessions
        /\ \A e \in CloseEnvs :
               e.sid \in DOMAIN ibb_sessions => \A r \in IbbResults(e) : e.sid \notin DOMAIN r.ibb
        /\ \A t \in TSids \ DOMAIN ibb_sessions :
               \A e \in DataAndCloseFor(t) :
                   (e.verb = "data" => WellFormedData(e)) =>
                       \A r \in IbbResults(e) :
                           /\ r.out = <<NotFound(e)>>
                           /\ r.ibb = ibb_sessions
                           /\ r.js = jingle_sessions

\* The last dispatch closed a transfer on a sequence error: the close went
\* out without an ack, the sid is out of the registry, and its content is
\* still there, so that another open for the sid can succeed.
C11_Witness ==
    /\ status = "running"
    /\ \E t \in TSids :
           /\ out = <<Close(<<"i1">>, Initiator, t)>>
           /\ t \notin DOMAIN ibb_sessions
           /\ ContentsOn(t) # {}
           /\ \E e \in OpenEnvs : e.sid = t /\ \E r \in IbbResults(e) : t \in DOMAIN r.ibb

\* A session-terminate for jingle sid s is among the envelopes o.
HasTerminate(o, s) == \E i \in 1..Len(o) : o[i].kind = "session-terminate" /\ o[i].sid = s

\* C12: every session in the session registry has state INITIATED or
\* ACCEPTED, and a session that has just been terminated is not in the
\* registry.
C12_SessionStates ==
    /\ \A s \in DOMAIN jingle_sessions : jingle_sessions[s].state \in {"INITIATED", "ACCEPTED"}
    /\ \A s \in JSids : HasTerminate(out, s) => s \notin DOMAIN jingle_sessions

\* The last dispatch terminated one session, which is gone, while another
\* session stays in the registry in state ACCEPTED.
C12_Witness ==
    /\ status = "running"
    /\ \E s \in JSids : HasTerminate(out, s) /\ s \notin DOMAIN jingle_sessions
    /\ \E s \in DOMAIN jingle_sessions : jingle_sessions[s].state = "ACCEPTED"

\* The session-initiate envelopes the peer can send, whatever was sent before.
AllInitiateEnvs == InitiateEnvs(JSids, ChildrenMenu \cup LaterMenu)

\* The structural checks of _handle_session_init pass for e.
ValidInitiate(e) == e.sid # NULL /\ e.initiator # NULL /\ e.initiator = e.from

\* Every result of dispatching the session-initiate e from the current
\* state, one for each value the new contents' state fields can hold.
InitiateResults(e) == {handle_jingle_iq(Start, e, st) : st \in [1..Len(e.children) -> UninitStates]}

\* The session-terminate with reason cancel that answers the session-initiate e.
CancelFor(e) == [kind |-> "session-terminate", to |-> e.initiator, sid |-> e.sid, reason |-> <<"cancel">>]

\* A session-accept is among the envelopes o.
HasAccept(o) == \E i \in 1..Len(o) : o[i].kind = "session-accept"

\* C13: no two contents, of one session or of different sessions of the
\* registry, carry the same transport sid.
C13_TransportSidUnique ==
    \A t \in TSids : Cardinality(ContentsOn(t)) <= 1

\* C14: of two content children with the same name the first is the one
\* stored, with its file info and transport sid, and every name offered is
\* in the session afterwards.
C14_FirstDuplicateKept ==
    status = "running" =>
        \A e \in AllInitiateEnvs :
            (ValidInitiate(e) /\ \A i \in 1..Len(e.children) : e.children[i] \in GoodContents) =>
                \A r \in InitiateResults(e) :
                    /\ r.status = "running"
                    /\ e.children # <<>> => e.sid \in DOMAIN r.js
                    /\ \A i \in 1..Len(e.children) :
                           (\A j \in 1..(i - 1) : e.children[j].name # e.children[i].name) =>
                               /\ e.children[i].name \in DOMAIN r.js[e.sid].content_table
                               /\ r.js[e.sid].content_table[e.children[i].name].tsid = e.children[i].tsid
                               /\ r.js[e.sid].content_table[e.children[i].name].file = e.children[i].file

\* C15: a structurally valid session-initiate all of whose content children
\* the parser turns down is answered with ack and session-terminate/cancel,
\* no session-accept goes out and the session is not in the registry
\* afterwards; and every session in state ACCEPTED has a content.
C15_NoContentParsedCancels ==
    /\ \A s \in DOMAIN jingle_sessions :
           jingle_sessions[s].state = "ACCEPTED" => DOMAIN jingle_sessions[s].content_table # {}
    /\ status = "running" =>
           \A e \in AllInitiateEnvs :
               (ValidInitiate(e) /\ e.children # <<>>
                   /\ \A i \in 1..Len(e.children) : e.children[i] \in BadContents /\ e.children[i].tag = "content") =>
                   \A r \in InitiateResults(e) :
                       /\ r.status = "running"
                       /\ r.out = <<Ack(e.id, e.from), CancelFor(e)>>
                       /\ e.sid \notin DOMAIN r.js

\* C16: a structurally valid session-initiate whose jingle element has no
\* content child is answered with ack and then session-terminate/cancel, no
\* session-accept goes out and the session is not in the registry when the
\* handler returns.
C16_NoContentChildCancels ==
    status = "running" =>
        \A e \in AllInitiateEnvs :
            (ValidInitiate(e) /\ \A i \in 1..Len(e.children) : e.children[i].tag # "content") =>
                \A r \in InitiateResults(e) :
                    /\ r.status = "running"
                    /\ r.out = <<Ack(e.id, e.from), CancelFor(e)>>
                    /\ ~HasAccept(r.out)
                    /\ e.sid \notin DOMAIN r.js

\* The <content> child of a session-accept as the parser of session-initiate
\* reads it.
AcceptedChild(c) ==
    [tag |-> "content",
     hasDescription |-> TRUE, descNs |-> c.descNs,
     hasTransport |-> TRUE, transNs |-> c.transNs,
     name |-> c.name, creator |-> c.creator, senders |-> c.senders,
     hasFile |-> TRUE, file |-> c.file,
     tsid |-> c.tsid, blockSize |-> c.blockSize]

\* The content table the parser builds from the one content c of a session-accept.
ParsedBack(c) == ParseContents(<<AcceptedChild(c)>>, <<>>, <<"INDETERMINATE">>).table

\* Contents x and y agree on creator, senders, name, file info, transport
\* sid and block size.
SameContent(x, y) ==
    /\ x.creator = y.creator
    /\ x.senders = y.senders
    /\ x.name = y.name
    /\ x.file = y.file
    /\ x.tsid = y.tsid
    /\ x.blocksize = y.blocksize

\* C17: every content of a session-accept that has just been sent, parsed
\* with the rules of session-initiate, gives the creator, senders, name,
\* file info, transport sid and block size of the content stored in the
\* session.
C17_AcceptRoundTrip ==
    status = "running" =>
        \A i \in 1..Len(out) :
            out[i].kind = "session-accept" =>
                /\ out[i].sid \in DOMAIN jingle_sessions
                /\ {c.name : c \in out[i].contents} = DOMAIN jingle_sessions[out[i].sid].content_table
                /\ \A c \in out[i].contents :
                       /\ c.name \in DOMAIN ParsedBack(c)
                       /\ SameContent(ParsedBack(c)[c.name], jingle_sessions[out[i].sid].content_table[c.name])

\* C18: a session-terminate for a sid whose session is no longer in the
\* registry sends nothing, changes neither registry and returns.
C18_TerminateAgainIsNoOp ==
    status = "running" =>
        \A e \in TerminateEnvs :
            e.sid \notin DOMAIN jingle_sessions =>
                LET r == handle_jingle_iq(Start, e, <<>>)
                IN  /\ r.out = <<>>
                    /\ r.js = jingle_sessions
                    /\ r.ibb = ibb_sessions
                    /\ r.status = "running"

\* The last dispatch terminated a session, which is gone from the registry,
\* while another session and a transfer are still there; a session-terminate
\* for the sid that is gone can be dispatched from here.
C18_Witness ==
    /\ status = "running"
    /\ DOMAIN jingle_sessions # {}
    /\ DOMAIN ibb_sessions # {}
    /\ \E e \in TerminateEnvs :
           /\ HasTerminate(out, e.sid)
           /\ e.sid \notin DOMAIN jingle_sessions
           /\ handle_jingle_iq(Start, e, <<>>) = Start

\* C19: a Jingle envelope with action session-info, session-accept,
\* transport-accept, transport-info, transport-reject or transport-replace
\* is answered with a result ack and leaves both registries unchanged.
C19_OtherActionsAcked ==
    status = "running" =>
        \A e \in OtherJingleEnvs :
            e.action # NULL =>
                LET r == handle_jingle_iq(Start, e, <<>>)
                IN  /\ r.out = <<Ack(e.id, e.from)>>
                    /\ r.js = jingle_sessions
                    /\ r.ibb = ibb_sessions
                    /\ r.status = "running"

\* Every result of dispatching, from the current state, an envelope that is
\* not a session-initiate.
OtherResults ==
    UNION {IbbResults(e) : e \in OpenEnvs \cup DataEnvs \cup CloseEnvs}
    \cup {handle_jingle_iq(Start, e, <<>>) : e \in TerminateEnvs \cup OtherJingleEnvs}

\* C20: a content that session-initiate parsing has just inserted is not yet
\* finished, and no open, data, close or session envelope takes a content
\* that is TRANSFER_FINISHED back to another state.
C20_ContentStateMonotonic ==
    status = "running" =>
        /\ \A i \in 1..Len(out) :
               (out[i].kind = "session-accept" /\ out[i].sid \in DOMAIN jingle_sessions) =>
                   \A n \in DOMAIN jingle_sessions[out[i].sid].content_table :
                       jingle_sessions[out[i].sid].content_table[n].state # "TRANSFER_FINISHED"
        /\ \A r \in OtherResults :
               \A s \in DOMAIN jingle_sessions \cap DOMAIN r.js :
                   \A n \in DOMAIN jingle_sessions[s].content_table :
                       jingle_sessions[s].content_table[n].state = "TRANSFER_FINISHED" =>
                           /\ n \in DOMAIN r.js[s].content_table
                           /\ r.js[s].content_table[n].state = "TRANSFER_FINISHED"

\* The block of e is accepted in result r: the first envelope sent is its ack.
Accepted(r, e) == Len(r.out) >= 1 /\ r.out[1] = Ack(e.id, e.from)

\* C21: every accepted data block adds its decoded length to the bytes
\* written of its transfer, also when the decoded bytes hold a NUL byte and
\* when the block is a repeated seq 0.
C21_BytesWrittenIsSum ==
    status = "running" =>
        \A e \in DataEnvs :
            (WellFormedData(e) /\ e.sid \in DOMAIN ibb_sessions) =>
                \A r \in DataResults(e) :
                    (Accepted(r, e) /\ e.sid \in DOMAIN r.ibb) =>
                        r.ibb[e.sid].pos = ibb_sessions[e.sid].pos + e.body.dec

\* Every result of dispatching an <open>, <data> or <close> envelope from
\* the current state, with the envelope.
IbbDispatches ==
    UNION {{[e |-> e, r |-> r] : r \in IbbResults(e)} : e \in OpenEnvs \cup DataEnvs \cup CloseEnvs}

\* C22: a dispatch that returns never drops an open sink, and every transfer
\* it takes out of the registry that had a sink, or got one in this
\* dispatch, has had that sink closed.
C22_SinkClosedOnRemoval ==
    status = "running" =>
        \A d \in IbbDispatches :
            d.r.status = "running" =>
                /\ d.r.lost = {}
                /\ \A t \in DOMAIN ibb_sessions \ DOMAIN d.r.ibb :
                       (ibb_sessions[t].stream \/ t \in d.r.opened) => t \in d.r.closed

\* C23: the file info every transfer of the registry points to belongs to a
\* content of a session that is still in the session registry.
C23_FileInfoOutlivesTransfer ==
    \A t \in DOMAIN ibb_sessions :
        /\ ~ibb_sessions[t].dangling
        /\ ibb_sessions[t].owner \in DOMAIN jingle_sessions
        /\ \E n \in DOMAIN jingle_sessions[ibb_sessions[t].owner].content_table :
               jingle_sessions[ibb_sessions[t].owner].content_table[n].file = ibb_sessions[t].file

\* The content children the parser turns down for a missing description, a
\* missing transport, a description without namespace or with another
\* namespace than file-transfer v5, a missing name, or an invalid creator.
RejectedContents ==
    {c \in BadContents :
        /\ c.tag = "content"
        /\ \/ ~c.hasDescription
           \/ ~c.hasTransport
           \/ c.descNs = NULL
           \/ c.descNs # NS_FT5
           \/ c.name = NULL
           \/ parse_content_creator(c.creator) = "CREATOR_UNKNOWN"}

\* The last envelope of o is a session-accept or a session-terminate.
EndsWithAnswer(o) == o # <<>> /\ o[Len(o)].kind \in {"session-accept", "session-terminate"}

\* C24: the handler of a structurally valid session-initiate returns for
\* every mix of accepted and rejected content children, a content that
\* follows a rejected one is still parsed, and the last envelope sent is a
\* session-accept or a session-terminate.
C24_InitiateReturns ==
    status = "running" =>
        \A e \in AllInitiateEnvs :
            (ValidInitiate(e)
                /\ \A i \in 1..Len(e.children) : e.children[i] \in GoodContents \cup RejectedContents) =>
                \A r \in InitiateResults(e) :
                    /\ r.status = "running"
                    /\ EndsWithAnswer(r.out)
                    /\ \A i \in 1..Len(e.children) :
                           e.children[i] \in GoodContents =>
                               /\ e.sid \in DOMAIN r.js
                               /\ e.children[i].name \in DOMAIN r.js[e.sid].content_table

\* C25: every dispatch of an open, data or close returns normally, and a
\* dispatch that removes a transfer finds a session that holds a content
\* with the transfer's transport sid.
C25_NoDispatchCrashes ==
    status = "running" =>
        /\ \A d \in IbbDispatches : d.r.status = "running"
        /\ \A t \in DOMAIN ibb_sessions : ContentsOn(t) # {}

\* The session-initiate envelopes that fail a structural check: no sid, no
\* initiator, or an initiator that is not the sender.
InvalidInitiateEnvs == {e \in AllInitiateEnvs : ~ValidInitiate(e)}

\* C26: a session-initiate that fails structural validation sends no
\* envelope at all and leaves both registries as they were.
C26_InvalidInitiateIsSilent ==
    status = "running" =>
        \A e \in InvalidInitiateEnvs :
            \A r \in InitiateResults(e) :
                /\ r.out = <<>>
                /\ r.js = jingle_sessions
                /\ r.ibb = ibb_sessions
                /\ r.status = "running"

\* Nothing was sent by the last dispatch, a session and a transfer are
\* registered, and the session-initiate with that session's sid and no
\* initiator is dropped from here.
C26_Witness ==
    /\ status = "running"
    /\ out = <<>>
    /\ DOMAIN ibb_sessions # {}
    /\ \E e \in InvalidInitiateEnvs :
           /\ e.sid \in DOMAIN jingle_sessions
           /\ e.initiator = NULL
           /\ InitiateResults(e) = {Start}

\* The positions of the session-accepts among the envelopes o.
AcceptsIn(o) == {i \in 1..Len(o) : o[i].kind = "session-accept"}

\* The structurally valid session-initiate envelopes with one content child.
OneContentInitiates == {e \in InitiateEnvs(JSids, LaterMenu) : ValidInitiate(e)}

\* C27: the handler of a structurally valid session-initiate sends the ack
\* with the initiate's id first, and the session-accept or session-terminate
\* for the session after it; a session-accept goes out only from the handler
\* of a session-initiate, carries that initiate's sid, and goes out at most
\* once per session-initiate.
C27_AckThenAccept ==
    /\ \A i \in 1..Len(out) :
           (out[i].kind = "session-accept" \/ (out[i].kind = "session-terminate" /\ out[i].reason = <<"cancel">>)) =>
               /\ i = 2
               /\ Len(out) = 2
               /\ out[1] \in {Ack(id, out[i].to) : id \in Ids}
    /\ status = "running" =>
           /\ \A e \in OneContentInitiates :
                  \A r \in InitiateResults(e) :
                      /\ Len(r.out) >= 1
                      /\ r.out[1] = Ack(e.id, e.from)
                      /\ Cardinality(AcceptsIn(r.out)) <= 1
                      /\ \A i \in AcceptsIn(r.out) : i > 1 /\ r.out[i].sid = e.sid
           /\ \A r \in OtherResults : AcceptsIn(r.out) = {}

\* The last dispatch handled a session-initiate while a transfer was under
\* way: the ack and then the session-accept of a registered session went out.
C27_Witness ==
    /\ status = "running"
    /\ Len(out) = 2
    /\ out[1] = Ack(<<"i1">>, Initiator)
    /\ out[2].kind = "session-accept"
    /\ out[2].sid \in DOMAIN jingle_sessions
    /\ \E t \in DOMAIN ibb_sessions : ibb_sessions[t].stream

\* The <open>, <data> and <close> envelopes without a sid, and the <data>
\* envelopes whose seq is missing, is no numeral or is outside 0..65535.
MalformedIbbEnvs ==
    {e \in OpenEnvs \cup DataEnvs \cup CloseEnvs : e.sid = NULL}
    \cup {e \in DataEnvs : e.seq = NULL \/ ~convert_str_to_uint16(e.seq).ok}

\* The structurally valid session-initiate envelopes with a content whose
\* transport has no sid or no block-size.
MalformedTransportInitiates ==
    {e \in AllInitiateEnvs :
        /\ ValidInitiate(e)
        /\ \E i \in 1..Len(e.children) :
               e.children[i] \in BadContents /\ (e.children[i].tsid = NULL \/ e.children[i].blockSize = NULL)}

\* C28: an open, data or close without sid, a data whose seq is missing or
\* does not parse to 0..65535, and a session-initiate whose transport lacks
\* sid or block-size are dropped: nothing is sent, nothing changes and the
\* handler returns.
C28_MalformedDropped ==
    status = "running" =>
        /\ \A e \in MalformedIbbEnvs :
               \A r \in IbbResults(e) :
                   r.out = <<>> /\ r.js = jingle_sessions /\ r.ibb = ibb_sessions /\ r.status = "running"
        /\ \A e \in MalformedTransportInitiates :
               \A r \in InitiateResults(e) :
                   r.out = <<>> /\ r.js = jingle_sessions /\ r.ibb = ibb_sessions /\ r.status = "running"

\* C29: a structurally valid session-initiate whose sid is already in the
\* session registry leaves the session stored under that sid with the
\* contents it had, and leaves every transfer as it was.
C29_DuplicateSidKeepsSession ==
    status = "running" =>
        \A e \in AllInitiateEnvs :
            (ValidInitiate(e) /\ e.sid \in DOMAIN jingle_sessions) =>
                \A r \in InitiateResults(e) :
                    /\ e.sid \in DOMAIN r.js
                    /\ r.js[e.sid].content_table = jingle_sessions[e.sid].content_table
                    /\ r.ibb = ibb_sessions

\* A session-terminate with reason success is among the envelopes o.
HasSuccess(o) == \E i \in 1..Len(o) : o[i].kind = "session-terminate" /\ o[i].reason = <<"success">>

\* C30: a dispatch sends session-terminate with reason success only when it
\* is a data envelope whose block is accepted and brings the bytes written
\* of its transfer to the declared file size; an inbound close and an
\* aborted transfer never lead to it.
C30_SuccessOnlyWhenComplete ==
    status = "running" =>
        \A d \in IbbDispatches :
            HasSuccess(d.r.out) =>
                /\ d.e.verb = "data"
                /\ d.e.sid \in DOMAIN ibb_sessions
                /\ Accepted(d.r, d.e)
                /\ string_to_ul(ibb_sessions[d.e.sid].file.size).ok
                /\ WrittenAfter(ibb_sessions[d.e.sid], d.e) >= string_to_ul(ibb_sessions[d.e.sid].file.size).value

\* The <open>, <data> and <close> envelopes as a peer that initiated no
\* session sends them.
ForeignEnvs == {[e EXCEPT !.from = <<"mallory">>] : e \in OpenEnvs \cup DataEnvs \cup CloseEnvs}

\* Sender `from` is the initiator of no session that holds a content with
\* transport sid t, and some session holds one.
NotInitiatorOf(from, t) ==
    /\ ContentsOn(t) # {}
    /\ \A c \in ContentsOn(t) : jingle_sessions[c[1]].initiator # from

\* C31: an open, data or close that names the transport sid of a content,
\* from a sender who is not the initiator of the session holding it, changes
\* neither the transfer registry nor a session or content state.
C31_OnlyInitiatorMovesTransfer ==
    status = "running" =>
        \A e \in ForeignEnvs :
            (e.sid # NULL /\ NotInitiatorOf(e.from, e.sid)) =>
                \A r \in IbbResults(e) :
                    /\ r.ibb = ibb_sessions
                    /\ r.js = jingle_sessions

\* The positions of the responses (result or error) among the envelopes o.
ResponsesIn(o) == {i \in 1..Len(o) : o[i].kind \in {"result", "error"}}

\* An error response is among the envelopes o.
HasError(o) == \E i \in 1..Len(o) : o[i].kind = "error"

\* C32: the dispatch of an open, data or close sends at most one response,
\* a result or an error, addressed to the sender with the envelope's id; and
\* when it is an error, nothing else is sent and both registries, content
\* states included, are as before.
C32_OneResponseErrorsChangeNothing ==
    status = "running" =>
        \A d \in IbbDispatches :
            /\ Cardinality(ResponsesIn(d.r.out)) <= 1
            /\ \A i \in ResponsesIn(d.r.out) : d.r.out[i].id = d.e.id /\ d.r.out[i].to = d.e.from
            /\ HasError(d.r.out) =>
                   /\ Len(d.r.out) = 1
                   /\ d.r.ibb = ibb_sessions
                   /\ d.r.js = jingle_sessions
                   /\ d.r.status = "running"

\* The last dispatch answered an open with modify / resource-constraint
\* while a transfer with an open sink is registered, and from here a close
\* for that transfer is answered with a result and one for the other sid
\* with an error.
C32_Witness ==
    /\ status = "running"
    /\ out = <<Error(<<"i1">>, Initiator, "modify", "resource-constraint")>>
    /\ \E t \in DOMAIN ibb_sessions :
           /\ ibb_sessions[t].stream
           /\ \E d \in IbbDispatches :
                  d.e.verb = "close" /\ d.e.sid = t /\ d.r.status = "running" /\ ~HasError(d.r.out)
                      /\ Cardinality(ResponsesIn(d.r.out)) = 1
    /\ \E d \in IbbDispatches : d.e.verb = "close" /\ d.e.sid \in TSids /\ HasError(d.r.out)

============================================================================
